---- MODULE Spec2Model ----
(***************************************************************************)
(* Model of the public node of rs-wnfs (wnfs/src/public/node/node.rs):     *)
(* the PublicNode sum type over Rc<PublicFile> / Rc<PublicDirectory>, its  *)
(* copy-on-write mutation, the memoized CID cell and the store / load      *)
(* protocol against a content-addressed block store.                       *)
(***************************************************************************)
EXTENDS Integers, Sequences, FiniteSets, TLC

\* ---------------------------------------------------------------- bounds
MaxVals     == 3    \* node values (Rc allocations) ever created in one run
NumHandles  == 2    \* PublicNode handles the caller holds
NumRcs      == 1    \* narrowed Rc<PublicFile> / Rc<PublicDirectory> the caller keeps
NumTasks    == 2    \* store calls that may be in flight together
NumExtCids  == 2    \* CIDs that exist outside the store (content, history)
MaxTime     == 2    \* largest time stamp handed to upsert_mtime, in ticks
NewTime     == 0    \* the time stamp nodes are created at, in ticks
TicksPerSec == 2    \* sub-second resolution of a DateTime<Utc>, in ticks
MaxLen      == 3    \* longest cids vector handed to update_previous
MaxPuts     == 3    \* puts the block store accepts in one run

Vals     == 1..MaxVals
Handles  == 1..NumHandles
Rcs      == 1..NumRcs
Tasks    == 1..NumTasks
ExtCids  == {<<"ext", i>> : i \in 1..NumExtCids}
Times    == 0..MaxTime
ContentCids == {<<"ext", 1>>}
Names    == {1, 2}
NoCid    == <<"none", 0>>
NoVal    == 0

VARIABLES
    heap,      \* Rc allocations: value id -> PublicFile / PublicDirectory
    nextId,    \* next unused allocation id
    handle,    \* the caller's PublicNode handles: handle -> value id (0: none)
    kept,      \* the Rc a cast returned and the caller keeps: slot -> value id
    blocks,    \* the block store: the serialized records it holds
    putCount,  \* number of puts the block store has performed
    pc,        \* per store call: "idle", "serializing", "done"
    borrowed,  \* per store call: the handle it borrows (&self)
    stack,     \* per store call: values being stored, innermost last
    res,       \* per store call: CID the last put returned / the call returned
    last       \* the last operation that completed, with its inputs and outcome

vars == <<heap, nextId, handle, kept, blocks, putCount, pc, borrowed, stack, res, last>>

\* ------------------------------------------------------------ data model
NoLink       == [k |-> "none", r |-> 0]
Encoded(c)   == [k |-> "cid",  r |-> c]
Decoded(v)   == [k |-> "node", r |-> v]

Unallocated == [tag |-> "none", created |-> 0, modified |-> 0, userland |-> NoCid,
                children |-> [n \in Names |-> NoLink], previous |-> {},
                persisted_as |-> NoCid]

\* Metadata::new(time): creation and modification time, kept in whole seconds.
Seconds(time) == time \div TicksPerSec

\* PublicFile::new(time, content_cid), as built at node.rs:341
PublicFile_new(time, cid) ==
    [tag |-> "file", created |-> Seconds(time), modified |-> Seconds(time),
     userland |-> cid, children |-> [n \in Names |-> NoLink], previous |-> {},
     persisted_as |-> NoCid]

\* PublicDirectory::new(time), as built at node.rs:340, with its children map
PublicDirectory_new(time, kids) ==
    [tag |-> "dir", created |-> Seconds(time), modified |-> Seconds(time),
     userland |-> NoCid, children |-> kids, previous |-> {},
     persisted_as |-> NoCid]

IsNode(v) == v \in Vals /\ heap[v].tag # "none"

\* ---------------------------------------------------------- Rc ownership
\* Values a directory value holds through Decoded links.
KidsOf(v) == {heap[v].children[n].r : n \in {m \in Names : heap[v].children[m].k = "node"}}

RECURSIVE ReachFrom(_, _)
ReachFrom(S, k) ==
    IF k = 0 THEN S
    ELSE ReachFrom(S \cup UNION {KidsOf(v) : v \in S}, k - 1)

\* Values the caller keeps alive, through a node handle or a narrowed Rc.
Live == ReachFrom(({handle[h] : h \in Handles} \cup {kept[r] : r \in Rcs}) \ {NoVal},
                  MaxVals)

\* Rc::strong_count of the allocation v.
StrongCount(v) ==
    Cardinality({h \in Handles : handle[h] = v})
    + Cardinality({r \in Rcs : kept[r] = v})
    + Cardinality({<<w, n>> \in Live \X Names : heap[w].children[n] = Decoded(v)})

\* Values no owner keeps alive are destroyed (the last owner dropped them).
Collect(hp, hd, kp) ==
    LET kids(v) == {hp[v].children[n].r : n \in {m \in Names : hp[v].children[m].k = "node"}}
        reach[k \in 0..MaxVals] ==
            IF k = 0 THEN ({hd[h] : h \in Handles} \cup {kp[r] : r \in Rcs}) \ {NoVal}
            ELSE reach[k-1] \cup UNION {kids(v) : v \in reach[k-1]}
    IN [v \in Vals |-> IF v \in reach[MaxVals] THEN hp[v] ELSE Unallocated]

\* ------------------------------------------------------- pure operations
\* The cell of a clone. Clone for PublicFile / PublicDirectory is outside
\* node.rs; the cell a clone starts with is taken as the specification
\* describes it (fresh and unset), not derived from code.
clone_cell(rec) == NoCid

\* (**file).clone() and Rc::make_mut reach the pointee's Clone: the copy
\* carries every field of the original, and the cell of a clone.
CloneValue(rec) == [rec EXCEPT !.persisted_as = clone_cell(rec)]

\* Metadata::upsert_mtime: the modification time, in whole seconds.
metadata_upsert_mtime(rec, time) == [rec EXCEPT !.modified = Seconds(time)]

\* cids.into_iter().collect::<BTreeSet<Cid>>()
CollectSet(cids) == {cids[i] : i \in 1..Len(cids)}

is_dir(v)  == heap[v].tag = "dir"
is_file(v) == heap[v].tag = "file"

\* as_dir reporting the error kind of the other cast
as_dir_WrongKind(v) ==
    IF heap[v].tag = "dir" THEN [ok |-> TRUE, rc |-> v, err |-> "none"]
    ELSE [ok |-> FALSE, rc |-> NoVal, err |-> "NotAFile"]

as_dir(v) ==
    IF heap[v].tag = "dir" THEN [ok |-> TRUE, rc |-> v, err |-> "none"]
    ELSE [ok |-> FALSE, rc |-> NoVal, err |-> "NotADirectory"]

as_file(v) ==
    IF heap[v].tag = "file" THEN [ok |-> TRUE, rc |-> v, err |-> "none"]
    ELSE [ok |-> FALSE, rc |-> NoVal, err |-> "NotAFile"]

get_previous(v) == heap[v].previous

\* The cell of a value, read from the heap.
MemoCell(v) == heap[v].persisted_as

\* persisted_as handing out a new, empty cell instead of the value's own
persisted_as_Unset(v) == NoCid

persisted_as(v) == MemoCell(v)

\* update_previous adding to the previous set instead of replacing it
update_previous_Extend(v, cids) ==
    [CloneValue(heap[v]) EXCEPT !.previous = heap[v].previous \cup CollectSet(cids)]

\* The value update_previous returns: a clone with the previous set replaced.
update_previous(v, cids) == [CloneValue(heap[v]) EXCEPT !.previous = CollectSet(cids)]

\* Link equality: by the CID a link refers to, a decoded node by its own
\* equality or by the CID it remembers.
RECURSIVE NodeEqAt(_, _, _)
LinkEqAt(a, b, k) ==
    CASE a.k = "none" \/ b.k = "none" -> a.k = b.k
      [] a.k = "cid"  /\ b.k = "cid"  -> a.r = b.r
      [] a.k = "node" /\ b.k = "node" -> NodeEqAt(a.r, b.r, k)
      [] a.k = "node" /\ b.k = "cid"  -> heap[a.r].persisted_as = b.r
      [] a.k = "cid"  /\ b.k = "node" -> heap[b.r].persisted_as = a.r

\* Field-wise equality of two values of the same variant (k bounds the depth).
FieldsEqAt(v, w, k) ==
    /\ heap[v].created = heap[w].created
    /\ heap[v].modified = heap[w].modified
    /\ heap[v].userland = heap[w].userland
    /\ heap[v].previous = heap[w].previous
    /\ \A n \in Names : LinkEqAt(heap[v].children[n], heap[w].children[n], k)

\* impl PartialEq for PublicNode
NodeEqAt(v, w, k) ==
    IF k = 0 THEN v = w
    ELSE CASE heap[v].tag = "file" /\ heap[w].tag = "file" -> v = w \/ FieldsEqAt(v, w, k - 1)
           [] heap[v].tag = "dir"  /\ heap[w].tag = "dir"  -> v = w \/ FieldsEqAt(v, w, k - 1)
           [] OTHER -> FALSE

NodeEq(v, w) == NodeEqAt(v, w, MaxVals)

\* ----------------------------------------------------------- block store
\* Content addressing: the CID of a record is a function of the record
\* alone, and distinct records have distinct CIDs.
CidOf(rec)  == <<"blk", rec>>
HasBlock(c) == c[1] = "blk" /\ c[2] \in blocks
BlockOf(c)  == c[2]

\* CIDs a caller can ask the store for.
Cids == ExtCids \cup {CidOf(rec) : rec \in blocks}

\* The CID a link is written as: a decoded node by the CID it remembers.
LinkCid(l) ==
    CASE l.k = "none" -> NoCid
      [] l.k = "cid"  -> l.r
      [] l.k = "node" -> heap[l.r].persisted_as

\* The tagged wire record of a value (PublicNodeSerializable).
Serialize(v) ==
    [tag |-> heap[v].tag, created |-> heap[v].created, modified |-> heap[v].modified,
     userland |-> heap[v].userland,
     children |-> [n \in Names |-> LinkCid(heap[v].children[n])],
     previous |-> heap[v].previous]

\* put_serializable(value) -> CID
PutCid(rec)    == CidOf(rec)
PutBlocks(rec) == blocks \cup {rec}

\* from_serializable: the in-memory value of a wire record; children stay CIDs.
Deserialize(rec) ==
    [tag |-> rec.tag, created |-> rec.created, modified |-> rec.modified,
     userland |-> rec.userland,
     children |-> [n \in Names |-> IF rec.children[n] = NoCid THEN NoLink
                                   ELSE Encoded(rec.children[n])],
     previous |-> rec.previous, persisted_as |-> NoCid]

\* ------------------------------------------------------------- history
\* The last operation: its name, the handle that holds its outcome (or the
\* handle a store call borrows), the value it was applied to, and the cids
\* vector of update_previous.
DidWith(op, h, v, cids) == [op |-> op, h |-> h, v |-> v, cids |-> cids]
Did(op, h, v) == DidWith(op, h, v, <<>>)

Borrowed(h) == \E t \in Tasks : borrowed[t] = h

TaskVars == <<pc, borrowed, stack, res>>
StoreVars == <<blocks, putCount>>

\* ---------------------------------------------------------- construction
Init ==
    /\ heap = [v \in Vals |-> Unallocated]
    /\ nextId = 1
    /\ handle = [h \in Handles |-> NoVal]
    /\ kept = [r \in Rcs |-> NoVal]
    /\ blocks = {}
    /\ putCount = 0
    /\ pc = [t \in Tasks |-> "idle"]
    /\ borrowed = [t \in Tasks |-> 0]
    /\ stack = [t \in Tasks |-> <<>>]
    /\ res = [t \in Tasks |-> NoCid]
    /\ last = Did("init", 0, NoVal)

\* let file_node: PublicNode = PublicFile::new(time, cid).into();
NewFile(h, time, cid) ==
    /\ handle[h] = NoVal
    /\ nextId <= MaxVals
    /\ heap' = [heap EXCEPT ![nextId] = PublicFile_new(time, cid)]
    /\ handle' = [handle EXCEPT ![h] = nextId]
    /\ nextId' = nextId + 1
    /\ last' = Did("new_file", h, NoVal)
    /\ UNCHANGED <<kept, TaskVars, StoreVars>>

\* Child references a new directory may hold: nothing, or a clone of a node
\* the caller holds (an in-memory child).
ChildChoices == {NoLink} \cup {Decoded(handle[g]) : g \in {f \in Handles : handle[f] # NoVal}}

\* let dir_node: PublicNode = PublicDirectory::new(time).into(); with children
NewDir(h, time, kids) ==
    /\ handle[h] = NoVal
    /\ nextId <= MaxVals
    /\ heap' = [heap EXCEPT ![nextId] = PublicDirectory_new(time, kids)]
    /\ handle' = [handle EXCEPT ![h] = nextId]
    /\ nextId' = nextId + 1
    /\ last' = Did("new_dir", h, NoVal)
    /\ UNCHANGED <<kept, TaskVars, StoreVars>>

\* #[derive(Clone)] on PublicNode: a second handle to the same value.
CloneHandle(a, b) ==
    /\ handle[a] # NoVal
    /\ handle[b] = NoVal
    /\ handle' = [handle EXCEPT ![b] = handle[a]]
    /\ last' = Did("clone", b, handle[a])
    /\ UNCHANGED <<heap, nextId, kept, TaskVars, StoreVars>>

\* A handle goes out of scope; a value without owners is destroyed.
DropHandle(a) ==
    /\ handle[a] # NoVal
    /\ ~Borrowed(a)
    /\ handle' = [handle EXCEPT ![a] = NoVal]
    /\ heap' = Collect(heap, handle', kept)
    /\ last' = Did("drop", a, handle[a])
    /\ UNCHANGED <<nextId, kept, TaskVars, StoreVars>>

\* ------------------------------------------------------------- mutation
\* a mutable borrow of the pointee taken without the ownership check
make_mut_in_place_Always(v) == TRUE

\* Rc::make_mut mutates in place exactly when the handle is the only owner.
make_mut_in_place(v) == StrongCount(v) = 1

\* PublicNode::upsert_mtime(&mut self, time)
upsert_mtime(h, time) ==
    /\ handle[h] # NoVal
    /\ ~Borrowed(h)
    /\ LET v == handle[h] IN
       IF make_mut_in_place(v)
       THEN /\ heap' = [heap EXCEPT ![v] = metadata_upsert_mtime(heap[v], time)]
            /\ UNCHANGED <<handle, nextId>>
       ELSE /\ nextId <= MaxVals
            /\ heap' = [heap EXCEPT
                          ![nextId] = metadata_upsert_mtime(CloneValue(heap[v]), time)]
            /\ handle' = [handle EXCEPT ![h] = nextId]
            /\ nextId' = nextId + 1
    /\ last' = Did(IF StrongCount(handle[h]) > 1 THEN "upsert_mtime_shared"
                                                 ELSE "upsert_mtime_unique",
                   h, handle[h])
    /\ UNCHANGED <<kept, TaskVars, StoreVars>>

\* let node = node.update_previous(cids); the result goes to the handle tgt
UpdatePrevious(h, cids, tgt) ==
    /\ handle[h] # NoVal
    /\ handle[tgt] = NoVal
    /\ nextId <= MaxVals
    /\ heap' = [heap EXCEPT ![nextId] = update_previous(handle[h], cids)]
    /\ handle' = [handle EXCEPT ![tgt] = nextId]
    /\ nextId' = nextId + 1
    /\ last' = DidWith("update_previous", tgt, handle[h], cids)
    /\ UNCHANGED <<kept, TaskVars, StoreVars>>

\* let r = node.as_file() / node.as_dir(): the cast that succeeds returns
\* Rc::clone of the pointee, one more owner for as long as the caller keeps it.
Cast(h, r) ==
    /\ handle[h] # NoVal
    /\ kept[r] = NoVal
    /\ LET v == handle[h] IN
       /\ kept' = [kept EXCEPT ![r] = IF as_file(v).ok THEN as_file(v).rc
                                      ELSE as_dir(v).rc]
       /\ last' = Did("cast", h, v)
    /\ UNCHANGED <<heap, nextId, handle, TaskVars, StoreVars>>

\* The caller drops the Rc a cast returned.
DropRc(r) ==
    /\ kept[r] # NoVal
    /\ kept' = [kept EXCEPT ![r] = NoVal]
    /\ heap' = Collect(heap, handle, kept')
    /\ last' = Did("drop_rc", 0, kept[r])
    /\ UNCHANGED <<nextId, handle, TaskVars, StoreVars>>

\* ---------------------------------------------------------------- store
Top(t) == stack[t][Len(stack[t])]

\* In-memory children of v that have not been persisted yet.
UnsavedKids(v) ==
    {n \in Names : heap[v].children[n].k = "node"
                   /\ persisted_as(heap[v].children[n].r) = NoCid}

\* a directory serialized synchronously, like a file
async_serialize_pending_Sync(v) == {}

\* impl AsyncSerialize for PublicNode: a file serializes synchronously, a
\* directory first has to persist its in-memory children.
async_serialize_pending(v) == IF is_file(v) THEN {} ELSE UnsavedKids(v)

\* store putting the node itself, past the memoized CID of the variant
StoreBegin_Direct(t, h) ==
    /\ pc[t] = "idle"
    /\ handle[h] # NoVal
    /\ borrowed' = [borrowed EXCEPT ![t] = h]
    /\ pc' = [pc EXCEPT ![t] = "serializing"]
    /\ res' = [res EXCEPT ![t] = NoCid]
    /\ stack' = [stack EXCEPT ![t] = <<handle[h]>>]
    /\ last' = DidWith("store_begin", h, handle[h], <<>>)
    /\ UNCHANGED <<heap, nextId, handle, kept, blocks, putCount>>

\* store remembering the CID when the put is issued, not when it is confirmed
StoreBegin_Eager(t, h) ==
    /\ pc[t] = "idle"
    /\ handle[h] # NoVal
    /\ borrowed' = [borrowed EXCEPT ![t] = h]
    /\ LET v == handle[h] IN
       IF MemoCell(v) # NoCid
       THEN /\ pc' = [pc EXCEPT ![t] = "done"]
            /\ res' = [res EXCEPT ![t] = MemoCell(v)]
            /\ stack' = stack
            /\ heap' = heap
            /\ last' = DidWith("store_hit", h, v, <<>>)
       ELSE /\ pc' = [pc EXCEPT ![t] = "serializing"]
            /\ res' = [res EXCEPT ![t] = NoCid]
            /\ stack' = [stack EXCEPT ![t] = <<v>>]
            /\ heap' = [heap EXCEPT ![v].persisted_as =
                           <<"blk", [tag |-> heap[v].tag, created |-> heap[v].created,
                                     modified |-> heap[v].modified,
                                     userland |-> heap[v].userland,
                                     children |-> [n \in Names |-> NoCid],
                                     previous |-> heap[v].previous]>>]
            /\ last' = DidWith("store_begin", h, v, <<>>)
    /\ UNCHANGED <<nextId, handle, kept, blocks, putCount>>

\* PublicFile::store / PublicDirectory::store, the call PublicNode::store
\* delegates to: a set cell is a cache hit, otherwise the value is serialized
\* and put.
variant_store(t, h, v) ==
    IF persisted_as(v) # NoCid
    THEN /\ pc' = [pc EXCEPT ![t] = "done"]
         /\ res' = [res EXCEPT ![t] = persisted_as(v)]
         /\ stack' = stack
         /\ last' = Did("store_hit", h, v)
    ELSE /\ pc' = [pc EXCEPT ![t] = "serializing"]
         /\ res' = [res EXCEPT ![t] = NoCid]
         /\ stack' = [stack EXCEPT ![t] = <<v>>]
         /\ last' = Did("store_begin", h, v)

\* PublicNode::store(&self, store): borrows the node and hands the call to
\* the store of the active variant.
StoreBegin(t, h) ==
    /\ pc[t] = "idle"
    /\ handle[h] # NoVal
    /\ borrowed' = [borrowed EXCEPT ![t] = h]
    /\ variant_store(t, h, handle[h])
    /\ UNCHANGED <<heap, nextId, handle, kept, StoreVars>>

\* async_serialize of a directory: an in-memory child is stored first.
Descend(t) ==
    /\ pc[t] = "serializing"
    /\ async_serialize_pending(Top(t)) # {}
    /\ LET n == CHOOSE m \in async_serialize_pending(Top(t)) :
                    \A o \in async_serialize_pending(Top(t)) : m <= o
           c == heap[Top(t)].children[n].r
       IN /\ stack' = [stack EXCEPT ![t] = Append(@, c)]
          /\ last' = Did("descend", borrowed[t], c)
    /\ UNCHANGED <<heap, nextId, handle, kept, StoreVars, pc, borrowed, res>>

\* put_async_serializable completes: the record is written, the store
\* confirms, and in the same poll the cell is set if absent; the call goes
\* on with what the cell holds.
Put(t) ==
    /\ pc[t] = "serializing"
    /\ async_serialize_pending(Top(t)) = {}
    /\ putCount < MaxPuts
    /\ LET v   == Top(t)
           rec == Serialize(v)
           c   == IF persisted_as(v) = NoCid THEN PutCid(rec) ELSE persisted_as(v)
       IN /\ blocks' = PutBlocks(rec)
          /\ putCount' = putCount + 1
          /\ heap' = [heap EXCEPT ![v].persisted_as = c]
          /\ stack' = [stack EXCEPT ![t] = SubSeq(@, 1, Len(@) - 1)]
          /\ IF Len(stack[t]) = 1
             THEN /\ pc' = [pc EXCEPT ![t] = "done"]
                  /\ res' = [res EXCEPT ![t] = c]
             ELSE UNCHANGED <<pc, res>>
          /\ last' = Did("put", borrowed[t], v)
    /\ UNCHANGED <<nextId, handle, kept, borrowed>>

\* The store reports a failure: the error propagates out of store.
PutFail(t) ==
    /\ pc[t] = "serializing"
    /\ async_serialize_pending(Top(t)) = {}
    /\ pc' = [pc EXCEPT ![t] = "idle"]
    /\ stack' = [stack EXCEPT ![t] = <<>>]
    /\ borrowed' = [borrowed EXCEPT ![t] = 0]
    /\ last' = Did("put_fail", borrowed[t], Top(t))
    /\ UNCHANGED <<heap, nextId, handle, kept, StoreVars, res>>

\* The caller drops the store future before it completes.
Cancel(t) ==
    /\ pc[t] = "serializing"
    /\ pc' = [pc EXCEPT ![t] = "idle"]
    /\ stack' = [stack EXCEPT ![t] = <<>>]
    /\ borrowed' = [borrowed EXCEPT ![t] = 0]
    /\ last' = Did("cancel", borrowed[t], Top(t))
    /\ UNCHANGED <<heap, nextId, handle, kept, StoreVars, res>>

\* The caller takes the CID a finished store call returned.
Return(t) ==
    /\ pc[t] = "done"
    /\ pc' = [pc EXCEPT ![t] = "idle"]
    /\ res' = [res EXCEPT ![t] = NoCid]
    /\ borrowed' = [borrowed EXCEPT ![t] = 0]
    /\ last' = Did("return", borrowed[t], handle[borrowed[t]])
    /\ UNCHANGED <<heap, nextId, handle, kept, StoreVars, stack>>

\* PublicNode::load(cid, store): get_deserializable, then the tagged record
\* is rebuilt as the matching variant behind a new Rc.
Load(cid, tgt) ==
    /\ handle[tgt] = NoVal
    /\ IF HasBlock(cid)
       THEN /\ nextId <= MaxVals
            /\ heap' = [heap EXCEPT ![nextId] = Deserialize(BlockOf(cid))]
            /\ handle' = [handle EXCEPT ![tgt] = nextId]
            /\ nextId' = nextId + 1
            /\ last' = Did("load", tgt, NoVal)
       ELSE /\ last' = Did("load_not_found", tgt, NoVal)
            /\ UNCHANGED <<heap, handle, nextId>>
    /\ UNCHANGED <<kept, TaskVars, StoreVars>>

CidSeqs == UNION {[1..n -> ExtCids] : n \in 0..MaxLen}

\* The cids vectors the copy-on-write runs hand to update_previous.
ShortCidSeqs == {q \in CidSeqs : Len(q) <= 1 /\ \A i \in 1..Len(q) : q[i] = <<"ext", 1>>}

\* New nodes; a new directory has children under the names in N.
Construct(N) ==
    \/ \E h \in Handles, cid \in ContentCids : NewFile(h, NewTime, cid)
    \/ \E h \in Handles, kids \in [Names -> ChildChoices] :
          /\ \A n \in Names \ N : kids[n] = NoLink
          /\ NewDir(h, NewTime, kids)

Handle ==
    \/ \E a, b \in Handles : CloneHandle(a, b)
    \/ \E a \in Handles : DropHandle(a)

Narrow ==
    \/ \E h \in Handles, r \in Rcs : Cast(h, r)
    \/ \E r \in Rcs : DropRc(r)

StoreCall(T) ==
    \/ \E t \in T, h \in Handles : StoreBegin(t, h)
    \/ \E t \in T : Descend(t)
    \/ \E t \in T : Put(t)
    \/ \E t \in T : PutFail(t)
    \/ \E t \in T : Cancel(t)
    \/ \E t \in T : Return(t)

\* The store protocol: store, load, in-place and copy-on-write mutation of
\* the modification time, one store call at a time.
Next ==
    \/ Construct(Names)
    \/ Handle
    \/ \E h \in Handles, time \in Times : upsert_mtime(h, time)
    \/ StoreCall({1})
    \/ \E cid \in Cids, tgt \in Handles : Load(cid, tgt)

Spec == Init /\ [][Next]_vars

\* Store calls in flight together on the caller's nodes.
NextRace ==
    \/ Construct({1})
    \/ \E a, b \in Handles : CloneHandle(a, b)
    \/ \E h \in Handles, time \in Times : upsert_mtime(h, time)
    \/ StoreCall(Tasks)

SpecRace == Init /\ [][NextRace]_vars

\* Copy-on-write mutation of stored and unstored nodes that are shared with
\* cloned handles, with directories and with narrowed Rcs.
NextCow ==
    \/ Construct({1})
    \/ \E a, b \in Handles : CloneHandle(a, b)
    \/ Narrow
    \/ \E h \in Handles, time \in Times : upsert_mtime(h, time)
    \/ \E h, tgt \in Handles, cids \in ShortCidSeqs : UpdatePrevious(h, cids, tgt)
    \/ StoreCall({1})

SpecCow == Init /\ [][NextCow]_vars

\* The operations that never touch the store: casts and the previous set.
NextPure ==
    \/ Construct({1})
    \/ Handle
    \/ \E h \in Handles, time \in Times : upsert_mtime(h, time)
    \/ \E h, tgt \in Handles, cids \in CidSeqs : UpdatePrevious(h, cids, tgt)
    \/ Narrow

SpecPure == Init /\ [][NextPure]_vars

\* ================================================================ claims

\* C1: storing a node and loading the CID that store returned, against the
\* same store, succeeds and yields a node equal to the stored one (same
\* variant, equal metadata, content / children and previous set).
C1_RoundTrip ==
    \A t \in Tasks :
        pc[t] = "done" =>
            /\ HasBlock(res[t])
            /\ (/\ last.op = "load"
                /\ CidOf(Serialize(handle[last.h])) = res[t])
               => NodeEq(handle[last.h], handle[borrowed[t]])

\* C2: a store call on a value whose cell is already set returns the CID in
\* the cell, the CID the earlier call returned, in one step that performs no
\* put: the store's contents and its put count stay as they were.
C2_IdempotentStore ==
    /\ [](\A t \in Tasks : pc[t] = "done" => res[t] = MemoCell(handle[borrowed[t]]))
    /\ [][\A t \in Tasks, h \in Handles :
            (/\ pc[t] = "idle"
             /\ pc'[t] # "idle"
             /\ borrowed'[t] = h
             /\ MemoCell(handle[h]) # NoCid)
            => /\ pc'[t] = "done"
               /\ res'[t] = MemoCell(handle[h])
               /\ blocks' = blocks
               /\ putCount' = putCount]_vars

C2_Witness ==
    /\ last.op = "store_hit"
    /\ pc[1] = "done"
    /\ putCount = 1
    /\ res[1] = MemoCell(handle[borrowed[1]])

\* C3: upsert_mtime through one handle leaves every other handle, and every
\* narrowed Rc, that referenced the same value pointing at that value, and
\* the value itself unchanged in every field, for files and directories alike.
C3_CowIsolation ==
    [][last'.op \in {"upsert_mtime_shared", "upsert_mtime_unique"} =>
          /\ \A b \in Handles \ {last'.h} :
                handle[b] = last'.v =>
                    /\ handle'[b] = handle[b]
                    /\ heap'[handle[b]] = heap[handle[b]]
          /\ \A r \in Rcs :
                kept[r] = last'.v =>
                    /\ kept'[r] = kept[r]
                    /\ heap'[kept[r]] = heap[kept[r]]]_vars

C3_Witness ==
    /\ last.op = "upsert_mtime_shared"
    /\ \E b \in Handles \ {last.h} :
          /\ handle[b] = last.v
          /\ is_dir(last.v)
          /\ heap[handle[last.h]].modified # heap[last.v].modified
    /\ \E r \in Rcs : kept[r] = last.v

\* C4: once the cell of a value holds a CID no step replaces it while the
\* value lives, and store calls that finished on the same value hold the
\* same CID.
C4_WriteOnce ==
    /\ [][\A v \in Vals :
            (MemoCell(v) # NoCid /\ heap'[v].tag # "none")
            => heap'[v].persisted_as = MemoCell(v)]_vars
    /\ [](\A t, u \in Tasks :
            (/\ pc[t] = "done"
             /\ pc[u] = "done"
             /\ handle[borrowed[t]] = handle[borrowed[u]])
            => res[t] = res[u])

C4_Witness ==
    /\ pc[1] = "done"
    /\ pc[2] = "done"
    /\ handle[borrowed[1]] = handle[borrowed[2]]
    /\ putCount = 2
    /\ Cardinality(blocks) = 1
    /\ res[1] = res[2]

\* C6: a cell holds only the CID of a block the store holds and becomes set
\* only in the step in which the put completes; a store call that fails or
\* is cancelled leaves every cell as it was, its own node's cell unset, and
\* a store call on a value with an unset cell does not finish without a put.
C6_MemoAfterPut ==
    /\ [](\A v \in Vals : MemoCell(v) # NoCid => HasBlock(MemoCell(v)))
    /\ [][\A v \in Vals :
            (MemoCell(v) = NoCid /\ heap'[v].persisted_as # NoCid)
            => /\ putCount' = putCount + 1
               /\ heap'[v].persisted_as[2] \in blocks']_vars
    /\ [][last'.op \in {"cancel", "put_fail"} =>
            /\ \A v \in Vals : heap'[v].persisted_as = MemoCell(v)
            /\ MemoCell(handle[last'.h]) = NoCid]_vars
    /\ [][\A t \in Tasks :
            (pc[t] = "idle" /\ pc'[t] = "done")
            => MemoCell(handle[borrowed'[t]]) # NoCid]_vars

C6_Witness ==
    /\ last.op = "cancel"
    /\ is_dir(handle[last.h])
    /\ MemoCell(handle[last.h]) = NoCid
    /\ \E n \in Names :
          /\ heap[handle[last.h]].children[n].k = "node"
          /\ MemoCell(heap[handle[last.h]].children[n].r) # NoCid

\* C7: exactly one of as_dir and as_file succeeds on a node; the other fails
\* with NotADirectory on a file and NotAFile on a directory; is_dir and
\* is_file agree with the cast that succeeds; a cast changes no node and the
\* Rc it returns points at the node's own value.
C7_Narrowing ==
    /\ [](\A h \in Handles :
            handle[h] # NoVal =>
                LET v == handle[h] IN
                /\ as_dir(v).ok # as_file(v).ok
                /\ heap[v].tag = "file" =>
                       (~as_dir(v).ok /\ as_dir(v).err = "NotADirectory" /\ as_file(v).rc = v)
                /\ heap[v].tag = "dir" =>
                       (~as_file(v).ok /\ as_file(v).err = "NotAFile" /\ as_dir(v).rc = v)
                /\ is_dir(v) = as_dir(v).ok
                /\ is_file(v) = as_file(v).ok)
    /\ [][last'.op = "cast" =>
            /\ heap' = heap
            /\ handle' = handle
            /\ \E r \in Rcs : kept[r] = NoVal /\ kept'[r] = last'.v]_vars

C7_Witness ==
    /\ last.op = "cast"
    /\ heap[last.v].tag = "file"
    /\ \E r \in Rcs : kept[r] = last.v
    /\ ~as_dir(last.v).ok
    /\ as_dir(last.v).err = "NotADirectory"
    /\ as_file(last.v).ok

\* C8: update_previous(cids) returns a node of the receiver's variant whose
\* previous set is exactly the set of elements of cids, every other field
\* equal to the receiver's; the receiver is left as it was.
C8_PreviousReplaced ==
    [][last'.op = "update_previous" =>
          LET r == last'.v
              cids == last'.cids
          IN /\ (heap[handle[last.h]].tag)' = heap[r].tag
             /\ (get_previous(handle[last.h]))' =
                    {c \in ExtCids : \E i \in 1..Len(cids) : cids[i] = c}
             /\ (heap[handle[last.h]].created)' = heap[r].created
             /\ (heap[handle[last.h]].modified)' = heap[r].modified
             /\ (heap[handle[last.h]].userland)' = heap[r].userland
             /\ (heap[handle[last.h]].children)' = heap[r].children
             /\ heap'[r] = heap[r]]_vars

C8_Witness ==
    /\ last.op = "update_previous"
    /\ Len(last.cids) = 3
    /\ last.cids[1] = last.cids[3]
    /\ Cardinality(get_previous(handle[last.h])) = 2
    /\ IsNode(last.v)
    /\ Cardinality(get_previous(last.v)) = 1

\* C9: a directory record is put only when each of its in-memory children
\* holds the CID of a block already in the store, so every child CID in a
\* stored record, and in the record of a CID that store returned, is in the
\* store.
C9_ChildrenFirst ==
    /\ [][last'.op = "put" =>
            \A n \in Names :
                heap[last'.v].children[n].k = "node" =>
                    HasBlock(MemoCell(heap[last'.v].children[n].r))]_vars
    /\ [](\A rec \in blocks : \A n \in Names :
            rec.children[n] # NoCid => HasBlock(rec.children[n]))
    /\ [](\A t \in Tasks : pc[t] = "done" => HasBlock(res[t]))

C9_Witness ==
    /\ pc[1] = "done"
    /\ last.op = "put"
    /\ putCount = 3
    /\ LET d == handle[borrowed[1]] IN
       /\ is_dir(d)
       /\ \E n \in Names :
             /\ heap[d].children[n].k = "node"
             /\ is_dir(heap[d].children[n].r)
             /\ \E m \in Names :
                   /\ heap[heap[d].children[n].r].children[m].k = "node"
                   /\ is_file(heap[heap[d].children[n].r].children[m].r)
       /\ \E n \in Names : BlockOf(res[1]).children[n] \in {CidOf(rec) : rec \in blocks}

\* C10: a set cell holds the CID the value's current fields serialize to, and
\* a finished store call holds the CID of the node as it is.
C10_MemoCoherent ==
    /\ \A v \in Vals :
          (IsNode(v) /\ MemoCell(v) # NoCid) => MemoCell(v) = CidOf(Serialize(v))
    /\ \A t \in Tasks :
          pc[t] = "done" => res[t] = CidOf(Serialize(handle[borrowed[t]]))

====
